---- MODULE Spec2Model ----
(***************************************************************************)
(* git-contributions-cli: discovery of local git repositories, the         *)
(* persisted registry (.gogitlocalstats), the aggregation of commits into  *)
(* day buckets, the week grid and the cell renderer.                       *)
(*                                                                         *)
(* The repository holds two copies of the scan code: scan.go and an        *)
(* unnamed file (part_000).  The variable `build` says which copy is       *)
(* compiled with stats.go; definitions of part_000 carry the suffix _p0.   *)
(*                                                                         *)
(* Paths are sequences of components ("r/A" is <<"r","A">>, "r/A/" is      *)
(* <<"r","A","">>).  Time is counted in ticks, TicksPerDay ticks to a      *)
(* day of 24 hours, tick 0 being a local midnight; the clock does not      *)
(* move during one invocation of the tool.                                 *)
(***************************************************************************)
EXTENDS Integers, Sequences, FiniteSets, TLC

VARIABLES
    build,          \* which copy of the scan code is compiled
    dirs,           \* the directories of the filesystem (set of paths)
    files,          \* the regular files of the filesystem (set of paths)
    regFile,        \* .gogitlocalstats: [exists, content]
    pc,             \* scan invocation -> position
    root,           \* scan invocation -> the folder given with -add
    ord,            \* scan invocation -> the order ReadDir lists names in
    repositories,   \* scan invocation -> result of recursiveFolderFind
    oldRepos,       \* scan invocation -> result of parseExistingRepos
    expect,         \* history: the lines the registry should hold
    overlapped,     \* history: two invocations were active at once
    weekday,        \* time.Now().Weekday()
    now,            \* time.Now() in ticks
    emails,         \* the lines of the allow-list file
    stpc,           \* position of the stats invocation
    repos,          \* stats: the registered repositories
    ri,             \* stats: index of the repository being read
    commits,        \* stats: the map[int]int of processRepositories
    last,           \* history: the commit processed last and the map before it
    nCommits,       \* history: commits read so far
    cols,           \* stats: result of buildCols
    screen,         \* stats: what printCells printed, cell by cell
    call,           \* a direct call of a pure function: its arguments
    ret,            \* its result
    returned        \* whether it returned

scanVars  == <<build, dirs, files, regFile, pc, root, ord, repositories,
               oldRepos, expect, overlapped>>
statsVars == <<weekday, now, emails, stpc, repos, ri, commits, last,
               nCommits, cols, screen>>
callVars  == <<call, ret, returned>>
vars      == <<scanVars, statsVars, callVars>>

---------------------------------------------------------------------------
(* Bounds of the model *)

TicksPerDay == 2
MaxAgeDays  == 186
MaxLen      == 3
MaxVal      == 999
MaxCommits  == 3
MaxScans    == 2
MaxCount    == 2

(* Constants of the program *)

outOfRange           == 99999
daysInLastSixMonths  == 183
weeksInLastSixMonths == 26

---------------------------------------------------------------------------
(* Helpers *)

Range(s) == {s[i] : i \in 1..Len(s)}

NoDup(s) == \A i, j \in 1..Len(s) : s[i] = s[j] => i = j

Front(s) == SubSeq(s, 1, Len(s) - 1)

SeqsUpTo(S, n) == UNION {[1..k -> S] : k \in 0..n}

(* f itself, as a table: TLC then evaluates each f[x] once, not at every use *)
Evaluated(f) == f @@ <<>>

---------------------------------------------------------------------------
(* stats.go: the date arithmetic *)

getBeginningOfDay(t) == t - (t % TicksPerDay)

(* The loop of countDaysSinceDate adds 24 hours to `date` while it is before
   today's midnight, counting the steps, and gives up at step 184: it returns
   the first n <= 183 with date + n days not before midnight, if there is one. *)
stepsToReach(date, midnight, limit) ==
    {n \in 0..limit :
        /\ ~(date + n * TicksPerDay < midnight)
        /\ (n = 0 \/ date + (n - 1) * TicksPerDay < midnight)}

countDaysSinceDate_ge(date, t) ==
    LET steps == stepsToReach(date, getBeginningOfDay(t), daysInLastSixMonths - 1)
    IN  IF steps = {} THEN outOfRange ELSE CHOOSE n \in steps : TRUE

countDaysSinceDate(date, t) ==
    LET steps == stepsToReach(date, getBeginningOfDay(t), daysInLastSixMonths)
    IN  IF steps = {} THEN outOfRange ELSE CHOOSE n \in steps : TRUE

Weekdays == {"Sunday", "Monday", "Tuesday", "Wednesday", "Thursday",
             "Friday", "Saturday"}

calcOffset(wd) ==
    CASE wd = "Sunday"    -> 7
      [] wd = "Saturday"  -> 6
      [] wd = "Friday"    -> 5
      [] wd = "Thursday"  -> 4
      [] wd = "Wednesday" -> 3
      [] wd = "Tuesday"   -> 2
      [] wd = "Monday"    -> 1
      [] OTHER            -> 0

---------------------------------------------------------------------------
(* scan.go: the merge of the registry *)

sliceContains_last(repoSlice, fileName) ==
    Len(repoSlice) > 0 /\ repoSlice[Len(repoSlice)] = fileName

sliceContains(repoSlice, fileName) ==
    \E i \in 1..Len(repoSlice) : repoSlice[i] = fileName

RECURSIVE joinLoop(_, _, _)
joinLoop(existing, new, i) ==
    IF i > Len(new) THEN existing
    ELSE joinLoop(IF ~sliceContains(existing, new[i])
                  THEN Append(existing, new[i]) ELSE existing,
                  new, i + 1)

joinSlice(existing, new) == joinLoop(existing, new, 1)

---------------------------------------------------------------------------
(* stats.go: aggregation of one commit *)

Lower(e) ==
    CASE e = "Me@x.io" -> "me@x.io"
      [] OTHER         -> e

checkEmail_fold(email, ems) ==
    \E i \in 1..Len(ems) : Lower(ems[i]) = Lower(email)

checkEmail(email, ems) ==
    \E i \in 1..Len(ems) : ems[i] = email

(* commits[k]++ on a Go map: a missing key reads as 0 and is created *)
increment(m, k) ==
    [x \in DOMAIN m \cup {k} |->
        (IF x \in DOMAIN m THEN m[x] ELSE 0) + (IF x = k THEN 1 ELSE 0)]

(* one turn of the loop of fillCommits, for the commit (email, when) *)
fillCommitsStep(m, email, when, ems, offset, t) ==
    IF ~checkEmail(email, ems) THEN m
    ELSE LET daysAgo == countDaysSinceDate(when, t) + offset
         IN  IF daysAgo # outOfRange THEN increment(m, daysAgo) ELSE m

(* the map processRepositories seeds *)
seedCommits == [i \in 0..(daysInLastSixMonths - 1) |-> 0]

---------------------------------------------------------------------------
(* stats.go: the grid *)

(* sort.Ints on the keys of the map: the keys within Cardinality(S) of the
   least key, in ascending order, then the others by their rank *)
sortInts(S) ==
    IF S = {} THEN <<>>
    ELSE LET n    == Cardinality(S)
             lo   == CHOOSE x \in S : \A y \in S : x <= y
             far  == {x \in S : x >= lo + n}
             rank == Evaluated([x \in far |-> Cardinality({y \in far : y < x})])
         IN  SelectSeq([i \in 1..n |-> lo + i - 1], LAMBDA x : x \in S)
             \o [i \in 1..Cardinality(far) |-> CHOOSE x \in far : rank[x] = i - 1]

sortMapIntoSlice(m) == sortInts(DOMAIN m)

(* The loop of buildCols over the keys: `col` restarts at a key of day 0, each
   key appends its count, and a key of day 6 stores `col` under its week (the
   last such key, if a week had several).  colAt is `col` after the key at
   index i, `resets` being the indexes of the keys of day 0. *)
colAt(keys, m, resets, i) ==
    LET before == {r \in resets : r <= i}
        start  == IF before = {} THEN 1
                  ELSE CHOOSE r \in before : \A q \in before : q <= r
    IN  [x \in 1..(i - start + 1) |-> m[keys[start + x - 1]]]

buildCols(keys, m) ==
    LET resets == {r \in 1..Len(keys) : keys[r] % 7 = 0}
        closes == {i \in 1..Len(keys) : keys[i] % 7 = 6}
        weeks  == {keys[i] \div 7 : i \in closes}
        lastOf(w) == LET of == {i \in closes : keys[i] \div 7 = w}
                     IN  CHOOSE i \in of : \A q \in of : q <= i
    IN  Evaluated([w \in weeks |-> colAt(keys, m, resets, lastOf(w))])

---------------------------------------------------------------------------
(* stats.go: the renderer *)

Plain     == "ESC[0;37;30m"
Light     == "ESC[1;30;47m"
Medium    == "ESC[1;30;43m"
Dark      == "ESC[1;30;42m"
Highlight == "ESC[1;37;45m"

DigitChars == <<"0", "1", "2", "3", "4", "5", "6", "7", "8", "9">>

RECURSIVE Digits(_)
Digits(n) ==
    IF n < 10 THEN <<DigitChars[n + 1]>>
    ELSE Digits(n \div 10) \o <<DigitChars[(n % 10) + 1]>>

(* fmt.Printf of a format holding one %d *)
RECURSIVE Sprintf(_, _)
Sprintf(format, val) ==
    IF format = <<>> THEN <<>>
    ELSE (IF Head(format) = "%d" THEN Digits(val) ELSE <<Head(format)>>)
         \o Sprintf(Tail(format), val)

printCell(val, today) ==
    LET shade  == IF val > 0 /\ val < 5 THEN Light
                  ELSE IF val >= 5 /\ val < 10 THEN Medium
                  ELSE IF val >= 10 THEN Dark
                  ELSE Plain
        escape == IF today THEN Highlight ELSE shade
        str    == IF val >= 10 THEN <<" ", "%d", " ">>
                  ELSE IF val >= 100 THEN <<"%d", " ">>
                  ELSE <<" ", " ", "%d", " ">>
    IN  IF val = 0
        THEN [escape |-> escape, text |-> <<" ", " ", "-", " ">>]
        ELSE [escape |-> escape, text |-> Sprintf(str, val)]

(* the cell printCells prints in row j (6 down to 0) for week i (27 down to 0) *)
printCellAt(cs, offset, j, i) ==
    IF i \in DOMAIN cs
    THEN IF i = 0 /\ j = offset - 1
         THEN IF Len(cs[i]) > j
              THEN printCell(cs[i][j + 1], TRUE)
              ELSE [escape |-> "panic", text |-> <<>>]
         ELSE IF Len(cs[i]) > j
              THEN printCell(cs[i][j + 1], FALSE)
              ELSE printCell(0, FALSE)
    ELSE printCell(0, FALSE)

printCells(cs, offset) ==
    [c \in (0..6) \X (0..(weeksInLastSixMonths + 1)) |->
        printCellAt(cs, offset, c[1], c[2])]

---------------------------------------------------------------------------
(* scan.go and part_000: the walk of the filesystem *)

Builds == {"scan.go", "part_000"}

(* strings.TrimSuffix(folder, "/") and strings.TrimSuffix(path, "/.git") *)
TrimSuffix(path, suffix) ==
    IF Len(path) > 1 /\ path[Len(path)] = suffix THEN Front(path) ELSE path

(* f.ReadDir(-1): the names in `folder`, in the order the directory gives *)
ReadDir(folder, order) ==
    SelectSeq(order, LAMBDA n : Append(folder, n) \in dirs \cup files)

(* the directory names scan.go passes over *)
skipped(name) == name = "node_modules" \/ name = "vendor"

(* the directory names part_000 passes over *)
skipped_p0(name) ==
    \/ name = "node_modules" \/ name = "vendor"
    \/ name = "Pictures" \/ name = "Library" \/ name = ".Trash"

RECURSIVE walk(_, _, _, _)
RECURSIVE walkEntries(_, _, _, _, _, _)

(* the loop over the entries of `folder` (already trimmed) *)
walkEntries(b, folders, folder, entries, i, order) ==
    IF i > Len(entries) THEN folders
    ELSE LET name == entries[i]
             path == Append(folder, name)
             next == IF path \notin dirs THEN folders
                     ELSE IF name = ".git"
                          THEN Append(folders, TrimSuffix(path, ".git"))
                     ELSE IF (IF b = "scan.go" THEN skipped(name)
                                               ELSE skipped_p0(name))
                          THEN folders
                     ELSE walk(b, folders, path, order)
         IN  walkEntries(b, next, folder, entries, i + 1, order)

walk(b, folders, folder, order) ==
    LET f == TrimSuffix(folder, "")
    IN  walkEntries(b, folders, f, ReadDir(f, order), 1, order)

scanGitFolders(folders, folder, order) == walk("scan.go", folders, folder, order)

scanGitFolders_p0(folders, folder, order) == walk("part_000", folders, folder, order)

recursiveFolderFind(b, folder, order) ==
    IF b = "scan.go" THEN scanGitFolders(<<>>, folder, order)
                     ELSE scanGitFolders_p0(<<>>, folder, order)

(* the folders the walk opens with os.Open *)
RECURSIVE opened(_, _)
opened(b, folder) ==
    LET f == TrimSuffix(folder, "")
    IN  {f} \cup UNION {opened(b, Append(f, n)) :
                          n \in {m \in {d[Len(d)] : d \in dirs} :
                                   /\ Append(f, m) \in dirs
                                   /\ m # ".git"
                                   /\ ~(IF b = "scan.go" THEN skipped(m)
                                                         ELSE skipped_p0(m))}}

---------------------------------------------------------------------------
(* scan.go and part_000: the registry file *)

NL == <<"\n">>

(* strings.Join(repos, "\n"): the content as a sequence of path and "\n" tokens *)
RECURSIVE Join(_, _)
Join(elems, sep) ==
    IF Len(elems) = 0 THEN <<>>
    ELSE IF Len(elems) = 1 THEN <<elems[1]>>
    ELSE <<elems[1], sep>> \o Join(Tail(elems), sep)

(* bufio.Scanner with ScanLines: a line ends at "\n"; what follows the last
   "\n" is a line if it is not empty *)
RECURSIVE ScanLines(_, _, _)
ScanLines(content, i, line) ==
    IF i > Len(content)
    THEN IF line = <<>> THEN <<>> ELSE <<line>>
    ELSE IF content[i] = NL
         THEN <<line>> \o ScanLines(content, i + 1, <<>>)
         ELSE ScanLines(content, i + 1, line \o content[i])

Created == [exists |-> TRUE, content |-> <<>>]

(* scan.go: O_APPEND|O_WRONLY, and the handle of os.Create is dropped *)
openFile(f) ==
    IF f.exists THEN [file |-> f, handle |-> "wronly"]
                ELSE [file |-> Created, handle |-> "nil"]

(* part_000: O_APPEND|O_RDWR, and the handle of os.Create is returned *)
openFile_p0(f) ==
    IF f.exists THEN [file |-> f, handle |-> "rdwr"]
                ELSE [file |-> Created, handle |-> "rdwr"]

(* the scanner's Read fails on a write-only or nil handle with an error that
   is not io.EOF, and parseExistingRepos panics *)
parseExistingRepos(b, f) ==
    LET o == IF b = "scan.go" THEN openFile(f) ELSE openFile_p0(f)
    IN  IF o.handle = "rdwr"
        THEN [file |-> o.file, panic |-> FALSE,
              lines |-> ScanLines(o.file.content, 1, <<>>)]
        ELSE [file |-> o.file, panic |-> TRUE, lines |-> <<>>]

updateDotFile(rs) == [exists |-> TRUE, content |-> Join(rs, NL)]

---------------------------------------------------------------------------
(* States of the parts of the program a specification leaves aside *)

Absent == [exists |-> FALSE, content |-> <<>>]

ScanIdle ==
    /\ build = "part_000"
    /\ dirs = {}
    /\ files = {}
    /\ regFile = Absent
    /\ pc = [p \in 1..MaxScans |-> "idle"]
    /\ root = [p \in 1..MaxScans |-> <<>>]
    /\ ord = [p \in 1..MaxScans |-> <<>>]
    /\ repositories = [p \in 1..MaxScans |-> <<>>]
    /\ oldRepos = [p \in 1..MaxScans |-> <<>>]
    /\ expect = <<>>
    /\ overlapped = FALSE

NoCommit == [email |-> "", when |-> 0, before |-> <<>>]

StatsIdle ==
    /\ weekday = "Monday"
    /\ now = 0
    /\ emails = <<>>
    /\ stpc = "idle"
    /\ repos = <<>>
    /\ ri = 0
    /\ commits = <<>>
    /\ last = NoCommit
    /\ nCommits = 0
    /\ cols = <<>>
    /\ screen = <<>>

CallIdle ==
    /\ call = [fn |-> "none"]
    /\ ret = <<>>
    /\ returned = FALSE

---------------------------------------------------------------------------
(* countDaysSinceDate called on its own: any date from MaxAgeDays days ago
   to tomorrow, at any tick of today *)

InitDays ==
    /\ ScanIdle /\ StatsIdle
    /\ call \in {[fn |-> "countDaysSinceDate", date |-> d, now |-> h] :
                    d \in (0 - MaxAgeDays * TicksPerDay)..(2 * TicksPerDay - 1),
                    h \in 0..(TicksPerDay - 1)}
    /\ ret = 0
    /\ returned = FALSE

CallCountDays ==
    /\ call.fn = "countDaysSinceDate"
    /\ ~returned
    /\ ret' = countDaysSinceDate(call.date, call.now)
    /\ returned' = TRUE
    /\ UNCHANGED <<call, scanVars, statsVars>>

SpecDays == InitDays /\ [][CallCountDays]_vars

(* C3: countDaysSinceDate returns 0 for a commit dated now or at or after
   today's midnight, n for a commit dated n days of 24 hours before now
   (1 <= n <= 183), and the sentinel 99999 for a commit dated 184 days or
   more before now. *)
C3_CountDays ==
    (call.fn = "countDaysSinceDate" /\ returned) =>
        /\ call.date = call.now => ret = 0
        /\ call.date >= call.now - (call.now % TicksPerDay) => ret = 0
        /\ \A n \in 1..183 :
              call.date = call.now - n * TicksPerDay => ret = n
        /\ call.date <= call.now - 184 * TicksPerDay => ret = 99999

(* a commit dated exactly 183 days before now, later than midnight, counted 183 *)
C3_Witness ==
    /\ call.fn = "countDaysSinceDate" /\ returned
    /\ call.now % TicksPerDay # 0
    /\ call.date = call.now - 183 * TicksPerDay
    /\ ret = 183

---------------------------------------------------------------------------
(* joinSlice called on its own *)

JoinNames == {"/r/A", "/r/a", "/r/A/"}

InitJoin ==
    /\ ScanIdle /\ StatsIdle
    /\ call \in {[fn |-> "joinSlice", existing |-> e, new |-> n] :
                    e \in {s \in SeqsUpTo(JoinNames, MaxLen) : NoDup(s)},
                    n \in SeqsUpTo(JoinNames, MaxLen)}
    /\ ret = <<>>
    /\ returned = FALSE

CallJoinSlice ==
    /\ call.fn = "joinSlice"
    /\ ~returned
    /\ ret' = joinSlice(call.existing, call.new)
    /\ returned' = TRUE
    /\ UNCHANGED <<call, scanVars, statsVars>>

SpecJoin == InitJoin /\ [][CallJoinSlice]_vars

(* the entries of `new` that are not in `existing`, each at its first place *)
FirstNew(existing, new) ==
    LET keep == {i \in 1..Len(new) :
                    /\ new[i] \notin Range(existing)
                    /\ \A j \in 1..(i - 1) : new[j] # new[i]}
        at(k) == CHOOSE i \in keep : Cardinality({j \in keep : j < i}) = k - 1
    IN  [k \in 1..Cardinality(keep) |-> new[at(k)]]

(* C4: for a duplicate-free `existing` and any `incoming`, joinSlice returns
   `existing` followed by the first occurrence of each incoming entry not
   already present, in incoming order; the result has no duplicate. *)
C4_JoinSlice ==
    (call.fn = "joinSlice" /\ returned) =>
        /\ ret = call.existing \o FirstNew(call.existing, call.new)
        /\ NoDup(ret)
        /\ \A x \in Range(call.new) :
              Cardinality({i \in 1..Len(ret) : ret[i] = x}) = 1

(* an incoming list that repeats an entry and holds one of `existing` *)
C4_Witness ==
    /\ call.fn = "joinSlice" /\ returned
    /\ call.existing = <<"/r/A", "/r/a">>
    /\ call.new = <<"/r/A/", "/r/a", "/r/A/">>
    /\ ret = <<"/r/A", "/r/a", "/r/A/">>

---------------------------------------------------------------------------
(* buildCols called on the sorted keys of a map: the keys 0..n-1 for one week,
   two weeks or the seeded 183 days, the counts being a ramp (all different)
   or zero but at one offset *)

GridMaps ==
    UNION {{[k \in 0..(n - 1) |-> k + 1]} \cup
           {[k \in 0..(n - 1) |-> IF k = i THEN c ELSE 0] :
               i \in 0..(n - 1), c \in 1..MaxCount} :
           n \in {7, 14, daysInLastSixMonths}}

InitGrid ==
    /\ ScanIdle /\ StatsIdle
    /\ call \in {[fn |-> "buildCols", counts |-> m] : m \in GridMaps}
    /\ ret = <<>>
    /\ returned = FALSE

CallBuildCols ==
    /\ call.fn = "buildCols"
    /\ ~returned
    /\ ret' = buildCols(sortMapIntoSlice(call.counts), call.counts)
    /\ returned' = TRUE
    /\ UNCHANGED <<call, scanVars, statsVars>>

SpecGrid == InitGrid /\ [][CallBuildCols]_vars

InGrid(grid, counts, k) ==
    /\ k \div 7 \in DOMAIN grid
    /\ Len(grid[k \div 7]) > k % 7
    /\ grid[k \div 7][(k % 7) + 1] = counts[k]

(* C7: buildCols on the ascending offsets of the map places every count in
   the grid: counts[k] is entry k % 7 of the column under week k / 7; the
   offsets 0..6 give exactly one column, [c0..c6]. *)
C7_BuildCols ==
    (call.fn = "buildCols" /\ returned) =>
        /\ \A k \in DOMAIN call.counts : InGrid(ret, call.counts, k)
        /\ DOMAIN call.counts = 0..6 =>
              /\ DOMAIN ret = {0}
              /\ ret[0] = [i \in 1..7 |-> call.counts[i - 1]]

(* what the code does: every offset of a week whose day 6 is a key is placed,
   and no column is stored for the other weeks *)
C7_FullWeeksOnly ==
    (call.fn = "buildCols" /\ returned) =>
        /\ \A k \in DOMAIN call.counts :
              (7 * (k \div 7) + 6 \in DOMAIN call.counts)
                  => InGrid(ret, call.counts, k)
        /\ \A w \in DOMAIN ret : 7 * w + 6 \in DOMAIN call.counts

(* the seeded map: offset 182 holds a count and week 26 has no column *)
C7_Lost ==
    /\ call.fn = "buildCols" /\ returned
    /\ DOMAIN call.counts = 0..182
    /\ call.counts[182] > 0
    /\ 26 \notin DOMAIN ret
    /\ DOMAIN ret = 0..25

---------------------------------------------------------------------------
(* printCell called on its own *)

InitCell ==
    /\ ScanIdle /\ StatsIdle
    /\ call \in {[fn |-> "printCell", val |-> v, today |-> t] :
                    v \in 0..MaxVal, t \in BOOLEAN}
    /\ ret = <<>>
    /\ returned = FALSE

CallPrintCell ==
    /\ call.fn = "printCell"
    /\ ~returned
    /\ ret' = printCell(call.val, call.today)
    /\ returned' = TRUE
    /\ UNCHANGED <<call, scanVars, statsVars>>

SpecCell == InitCell /\ [][CallPrintCell]_vars

EmptyMarker == <<" ", " ", "-", " ">>

Spaces(n) == [i \in 1..n |-> " "]

(* C8: value 0 prints the empty marker; 1..4 light, 5..9 medium, >= 10 dark,
   the today flag replacing the colour only; the padding before the number
   shrinks by one at 10 and by one more at 100, so that every cell is as wide
   as the empty marker. *)
C8_PrintCell ==
    (call.fn = "printCell" /\ returned) =>
        LET v == call.val
            shade == IF v = 0 THEN Plain
                     ELSE IF v <= 4 THEN Light
                     ELSE IF v <= 9 THEN Medium
                     ELSE Dark
            pad == IF v >= 100 THEN 0 ELSE IF v >= 10 THEN 1 ELSE 2
        IN  /\ ret.escape = IF call.today THEN Highlight ELSE shade
            /\ v = 0 => ret.text = EmptyMarker
            /\ v > 0 => ret.text = Spaces(pad) \o Digits(v) \o <<" ">>
            /\ Len(ret.text) = Len(EmptyMarker)

(* what the code does: the claim below 100, and one space too many from 100 on *)
C8_BelowHundred ==
    (call.fn = "printCell" /\ returned) =>
        LET v == call.val
            shade == IF v = 0 THEN Plain
                     ELSE IF v <= 4 THEN Light
                     ELSE IF v <= 9 THEN Medium
                     ELSE Dark
        IN  /\ ret.escape = IF call.today THEN Highlight ELSE shade
            /\ v = 0 => ret.text = EmptyMarker
            /\ v < 100 => Len(ret.text) = Len(EmptyMarker)
            /\ v >= 100 => ret.text = <<" ">> \o Digits(v) \o <<" ">>

C8_TooWide ==
    /\ call.fn = "printCell" /\ returned
    /\ call.val = 100
    /\ ret.text = <<" ", "1", "0", "0", " ">>

---------------------------------------------------------------------------
(* stats: processRepositories, fillCommits and printCommitsStats *)

AllowList == <<"alt@y.io", "me@x.io">>

CommitEmails == {"me@x.io", "Me@x.io"}

(* ages, in days before today, of the commits a repository may hold *)
CommitDays == {0, 1, 183, 184}

(* a commit of that day, at its first or its last tick *)
CommitTimes ==
    {(0 - d) * TicksPerDay + s : d \in CommitDays, s \in {0, TicksPerDay - 1}}

RepoPath(k) == <<"r", DigitChars[k + 1]>>

(* the registry a stats run finds: no file, an empty file, two repositories *)
Registries ==
    {Absent} \cup
    {updateDotFile([i \in 1..k |-> RepoPath(i)]) : k \in {0, 2}}

InitStats ==
    /\ build \in Builds
    /\ dirs = {}
    /\ files = {}
    /\ regFile \in Registries
    /\ pc = [p \in 1..MaxScans |-> "idle"]
    /\ root = [p \in 1..MaxScans |-> <<>>]
    /\ ord = [p \in 1..MaxScans |-> <<>>]
    /\ repositories = [p \in 1..MaxScans |-> <<>>]
    /\ oldRepos = [p \in 1..MaxScans |-> <<>>]
    /\ expect = <<>>
    /\ overlapped = FALSE
    /\ weekday \in Weekdays
    /\ now = TicksPerDay - 1
    /\ emails = AllowList
    /\ stpc = "start"
    /\ repos = <<>>
    /\ ri = 0
    /\ commits = <<>>
    /\ last = NoCommit
    /\ nCommits = 0
    /\ cols = <<>>
    /\ screen = <<>>
    /\ CallIdle

scanRest == <<build, dirs, files, pc, root, ord, repositories, oldRepos,
              expect, overlapped>>

(* processRepositories up to its loop: the registry is read and the map seeded *)
StatsStart ==
    /\ stpc = "start"
    /\ LET pr == parseExistingRepos(build, regFile)
       IN  /\ regFile' = pr.file
           /\ IF pr.panic
              THEN /\ stpc' = "panicked"
                   /\ UNCHANGED <<repos, ri, commits>>
              ELSE /\ repos' = pr.lines
                   /\ commits' = seedCommits
                   /\ ri' = 1
                   /\ stpc' = IF Len(pr.lines) = 0 THEN "print" ELSE "open"
    /\ UNCHANGED <<scanRest, weekday, now, emails, last, nCommits, cols,
                   screen, callVars>>

(* fillCommits: the repository opens, HEAD resolves and the log starts *)
OpenRepo ==
    /\ stpc = "open"
    /\ stpc' = "log"
    /\ UNCHANGED <<scanVars, weekday, now, emails, repos, ri, commits, last,
                   nCommits, cols, screen, callVars>>

(* fillCommits: iterator.Next() gives a commit, and the loop body runs on it *)
NextCommit ==
    /\ stpc = "log"
    /\ nCommits < MaxCommits
    /\ \E email \in CommitEmails, when \in CommitTimes :
          /\ commits' = fillCommitsStep(commits, email, when, emails,
                                        calcOffset(weekday), now)
          /\ last' = [email |-> email, when |-> when, before |-> commits]
    /\ nCommits' = nCommits + 1
    /\ UNCHANGED <<scanVars, weekday, now, emails, stpc, repos, ri, cols,
                   screen, callVars>>

(* fillCommits: iterator.Next() gives io.EOF; the next repository, or the end *)
EndOfLog ==
    /\ stpc = "log"
    /\ IF ri < Len(repos)
       THEN ri' = ri + 1 /\ stpc' = "open"
       ELSE ri' = ri /\ stpc' = "print"
    /\ UNCHANGED <<scanVars, weekday, now, emails, repos, commits, last,
                   nCommits, cols, screen, callVars>>

(* fillCommits: PlainOpen, Head, Log or Next fails, and the run panics *)
GitFails ==
    /\ stpc \in {"open", "log"}
    /\ stpc' = "panicked"
    /\ UNCHANGED <<scanVars, weekday, now, emails, repos, ri, commits, last,
                   nCommits, cols, screen, callVars>>

(* printCommitsStats *)
PrintStats ==
    /\ stpc = "print"
    /\ cols' = buildCols(sortMapIntoSlice(commits), commits)
    /\ screen' = printCells(cols', calcOffset(weekday))
    /\ stpc' = "done"
    /\ UNCHANGED <<scanVars, weekday, now, emails, repos, ri, commits, last,
                   nCommits, callVars>>

NextStats ==
    \/ StatsStart \/ OpenRepo \/ NextCommit \/ EndOfLog \/ GitFails
    \/ PrintStats

SpecStats == InitStats /\ [][NextStats]_vars

Aggregating == stpc \in {"open", "log", "print", "done"}

(* C1: in every state of the aggregation the map holds exactly the offsets
   0..182; a commit whose offset is the sentinel or exceeds 182 is stored
   under no key. *)
C1_Keys == Aggregating => DOMAIN commits = 0..(daysInLastSixMonths - 1)

(* what the code does: the seeded offsets stay, and a key is added for an
   offset above 182 *)
C1_SeededKeysStay == Aggregating => (0..182) \subseteq DOMAIN commits

C1_SentinelStored ==
    /\ Aggregating
    /\ \E k \in DOMAIN commits : k > outOfRange
    /\ \E k \in DOMAIN commits : k > 182 /\ k < 200

(* the calendar day of a tick, in days before today *)
DaysBefore(when) ==
    CHOOSE d \in (0 - 2)..(MaxAgeDays + 1) :
        /\ (0 - d) * TicksPerDay <= when
        /\ when < (1 - d) * TicksPerDay

Member(email) == email \in Range(AllowList)

(* C2: a commit of an allow-listed author dated d days before today, inside
   the window, adds exactly 1 to the bucket d + todayOffset and leaves every
   other bucket as it was; a commit of another author leaves the map as it
   was. *)
C2_OneBucket ==
    (Aggregating /\ last # NoCommit) =>
        LET d == DaysBefore(last.when)
            k == d + calcOffset(weekday)
            at(m, x) == IF x \in DOMAIN m THEN m[x] ELSE 0
        IN  /\ (Member(last.email) /\ d >= 0 /\ d <= daysInLastSixMonths) =>
                  /\ at(commits, k) = at(last.before, k) + 1
                  /\ \A x \in (DOMAIN commits \cup DOMAIN last.before) \ {k} :
                        at(commits, x) = at(last.before, x)
            /\ ~Member(last.email) => commits = last.before

(* two commits of an allow-listed author today, then one of another author *)
C2_Witness ==
    /\ Aggregating
    /\ nCommits = 3
    /\ last.email = "Me@x.io"
    /\ DaysBefore(last.when) = 0
    /\ commits[calcOffset(weekday)] = 2
    /\ commits = last.before

TodayCommitted ==
    /\ last # NoCommit
    /\ Member(last.email)
    /\ DaysBefore(last.when) = 0

(* C9: todayOffset is 1..7; a commit authored today is bucketed at
   todayOffset, in week column 0 of the grid, and that is the cell the
   renderer highlights: week 0, row todayOffset - 1. *)
C9_TodayCell ==
    (stpc = "done" /\ TodayCommitted) =>
        LET off == calcOffset(weekday)
        IN  /\ off \in 1..7
            /\ commits[off] >= 1
            /\ InGrid(cols, commits, off)
            /\ off \div 7 = 0
            /\ screen[<<off - 1, 0>>] = printCell(commits[off], TRUE)

(* what the code does: the highlighted cell is week 0, row todayOffset - 1,
   and it shows the bucket todayOffset - 1, which no commit reaches *)
C9_HighlightIsEmpty ==
    stpc = "done" =>
        LET off == calcOffset(weekday)
        IN  /\ off \in 1..7
            /\ \A c \in DOMAIN screen :
                  screen[c].escape = Highlight <=> c = <<off - 1, 0>>
            /\ screen[<<off - 1, 0>>] = printCell(commits[off - 1], TRUE)
            /\ commits[off - 1] = 0
            /\ TodayCommitted => commits[off] >= 1

C9_SundayNextColumn ==
    /\ stpc = "done" /\ TodayCommitted
    /\ weekday = "Sunday"
    /\ cols[1][1] >= 1
    /\ screen[<<6, 0>>] = printCell(0, TRUE)

---------------------------------------------------------------------------
(* scan: the filesystems, the roots and the directory orders of the model *)

R == <<"r">>

(* directories that may exist under r; r/W always exists and holds a regular
   file named .git, r holds a regular file *)
DirUniverse ==
    {<<"r", "A">>, <<"r", "A", ".git">>, <<"r", "A", "node_modules">>,
     <<"r", "A", "node_modules", "B">>,
     <<"r", "A", "node_modules", "B", ".git">>,
     <<"r", "Pictures">>, <<"r", "Pictures", ".git">>,
     <<"r", "C">>, <<"r", "C", ".git">>}

PrefixClosed(D) == \A d \in D : Len(d) > 2 => Front(d) \in D

FixedDirs == {R, <<"r", "W">>}

FixedFiles == {<<"r", "W", ".git">>, <<"r", "notes">>}

DirOrders ==
    {<<".git", "A", "B", "C", "Pictures", "W", "node_modules", "notes">>,
     <<"notes", "node_modules", "W", "Pictures", "C", "B", "A", ".git">>}

(* the folder given with -add: r, r/, two folders inside r, a missing folder *)
ScanRoots ==
    {<<"r">>, <<"r", "">>, <<"r", "A">>, <<"r", "A", "node_modules">>,
     <<"r", "X">>}

InitScan ==
    /\ build \in Builds
    /\ dirs \in {FixedDirs \cup D : D \in {E \in SUBSET DirUniverse : PrefixClosed(E)}}
    /\ files = FixedFiles
    /\ regFile = Absent
    /\ pc = [p \in 1..MaxScans |-> "idle"]
    /\ root = [p \in 1..MaxScans |-> <<>>]
    /\ ord = [p \in 1..MaxScans |-> <<>>]
    /\ repositories = [p \in 1..MaxScans |-> <<>>]
    /\ oldRepos = [p \in 1..MaxScans |-> <<>>]
    /\ expect = <<>>
    /\ overlapped = FALSE
    /\ StatsIdle
    /\ CallIdle

Active == {"found", "read"}

Ended == {"done", "panicked", "fatal"}

(* the registry the scans ended so far should have left: each path at its
   first discovery *)
Noted(found) ==
    expect \o SelectSeq(found, LAMBDA x : x \notin Range(expect))

(* scan: recursiveFolderFind; os.Open of a missing folder ends in log.Fatal *)
Discover(p) ==
    /\ pc[p] = "idle"
    /\ \A q \in 1..(p - 1) : pc[q] # "idle"
    /\ \E r \in ScanRoots, o \in DirOrders :
          /\ root' = [root EXCEPT ![p] = r]
          /\ ord' = [ord EXCEPT ![p] = o]
          /\ IF TrimSuffix(r, "") \in dirs
             THEN /\ repositories' =
                        [repositories EXCEPT ![p] = recursiveFolderFind(build, r, o)]
                  /\ pc' = [pc EXCEPT ![p] = "found"]
             ELSE /\ pc' = [pc EXCEPT ![p] = "fatal"]
                  /\ UNCHANGED repositories
    /\ overlapped' = (overlapped \/ \E q \in 1..MaxScans : pc[q] \in Active)
    /\ UNCHANGED <<build, dirs, files, regFile, oldRepos, expect, statsVars,
                   callVars>>

(* a scan that starts when no other invocation is running *)
DiscoverAlone(p) ==
    /\ \A q \in 1..MaxScans : pc[q] \notin Active
    /\ Discover(p)

(* addNewSliceElementsToFile: parseExistingRepos *)
Parse(p) ==
    /\ pc[p] = "found"
    /\ LET pr == parseExistingRepos(build, regFile)
       IN  /\ regFile' = pr.file
           /\ IF pr.panic
              THEN /\ pc' = [pc EXCEPT ![p] = "panicked"]
                   /\ expect' = Noted(repositories[p])
                   /\ UNCHANGED oldRepos
              ELSE /\ pc' = [pc EXCEPT ![p] = "read"]
                   /\ oldRepos' = [oldRepos EXCEPT ![p] = pr.lines]
                   /\ UNCHANGED expect
    /\ UNCHANGED <<build, dirs, files, root, ord, repositories, overlapped,
                   statsVars, callVars>>

(* addNewSliceElementsToFile: joinSlice and updateDotFile *)
Update(p) ==
    /\ pc[p] = "read"
    /\ regFile' = updateDotFile(joinSlice(oldRepos[p], repositories[p]))
    /\ pc' = [pc EXCEPT ![p] = "done"]
    /\ expect' = Noted(repositories[p])
    /\ UNCHANGED <<build, dirs, files, root, ord, repositories, oldRepos,
                   overlapped, statsVars, callVars>>

NextScan == \E p \in 1..MaxScans : DiscoverAlone(p) \/ Parse(p) \/ Update(p)

SpecScan == InitScan /\ [][NextScan]_vars

NextConc == \E p \in 1..MaxScans : Discover(p) \/ Parse(p) \/ Update(p)

SpecConc == InitScan /\ [][NextConc]_vars

---------------------------------------------------------------------------
(* Properties of the registry after scans run one after another *)

Quiet == \A q \in 1..MaxScans : pc[q] \notin Active

(* invocation p listed its root and went on to the registry *)
Discovered(p) == pc[p] \in {"found", "read", "done", "panicked"}

(* invocation p ended after it had discovered its paths *)
Finished(p) == pc[p] \in {"done", "panicked"}

(* a file with one path per line: paths separated by "\n" *)
OnePerLine(paths) ==
    [i \in 1..(IF Len(paths) = 0 THEN 0 ELSE 2 * Len(paths) - 1) |->
        IF i % 2 = 1 THEN paths[(i + 1) \div 2] ELSE NL]

RegistryHoldsAll ==
    /\ regFile.exists
    /\ regFile.content = OnePerLine(expect)
    /\ NoDup(expect)
    /\ Range(expect) =
          UNION {Range(repositories[p]) : p \in {q \in 1..MaxScans : Finished(q)}}

(* C5: starting without a registry file, once scans that ran one after
   another have ended the file exists and holds, one path per line and
   without a duplicate line, exactly the paths discovered so far: each path
   where its first discovery put it, the earlier content unchanged and in
   order before the paths a later scan added *)
C5_Registry ==
    (Quiet /\ \E p \in 1..MaxScans : Finished(p)) => RegistryHoldsAll

(* the same statement for the copy of the code that opens the registry for
   reading and writing *)
C5_ReadWriteCopy ==
    (build = "part_000" /\ Quiet /\ \E p \in 1..MaxScans : Finished(p))
        => RegistryHoldsAll

(* the first scan found repositories, and ended in the panic of
   parseExistingRepos with the registry created and empty *)
C5_NeverWritten ==
    /\ build = "scan.go"
    /\ pc[1] = "panicked"
    /\ repositories[1] # <<>>
    /\ regFile = Created

---------------------------------------------------------------------------
(* Properties of the discovery *)

Excluded == {"node_modules", "vendor", "Pictures", "Library", ".Trash"}

(* d is rt or lies below it through names that are neither .git nor excluded *)
Reachable(rt, d) ==
    /\ Len(d) >= Len(rt)
    /\ SubSeq(d, 1, Len(rt)) = rt
    /\ \A i \in (Len(rt) + 1)..Len(d) : d[i] \notin Excluded \cup {".git"}

ReposUnder(rt) ==
    {d \in dirs : Append(d, ".git") \in dirs /\ Reachable(rt, d)}

DiscoverIsExact(p) ==
    LET rt == TrimSuffix(root[p], "")
    IN  /\ NoDup(repositories[p])
        /\ Range(repositories[p]) = ReposUnder(rt)
        /\ \A f \in opened(build, root[p]) : Reachable(rt, f)

(* C6: recursiveFolderFind returns, each exactly once, the directories that
   hold a .git directory and are reachable from the root through directories
   named neither .git nor node_modules, vendor, Pictures, Library, .Trash,
   and nothing else, and it lists no .git directory and no excluded one *)
C6_Discover == \A p \in 1..MaxScans : Discovered(p) => DiscoverIsExact(p)

(* the same statement for the copy of the code with the five exclusions *)
C6_FiveExclusions ==
    \A p \in 1..MaxScans :
        (build = "part_000" /\ Discovered(p)) => DiscoverIsExact(p)

(* in both copies a root with A/.git and A/node_modules/B/.git gives A and
   not B *)
C6_NodeModulesScenario ==
    \A p \in 1..MaxScans :
        (/\ Discovered(p)
         /\ TrimSuffix(root[p], "") = R
         /\ <<"r", "A", "node_modules", "B", ".git">> \in dirs
         /\ <<"r", "A", ".git">> \in dirs)
        => /\ <<"r", "A">> \in Range(repositories[p])
           /\ <<"r", "A", "node_modules", "B">> \notin Range(repositories[p])

(* scan.go walks into Pictures and reports the repository in it *)
C6_IntoPictures ==
    /\ build = "scan.go"
    /\ Discovered(1)
    /\ <<"r", "Pictures">> \in Range(repositories[1])
    /\ <<"r", "Pictures">> \in opened(build, root[1])

---------------------------------------------------------------------------
(* Properties of scans that may run at the same time *)

(* the registry lacks a path that invocation p discovered *)
Lost(p) ==
    /\ Finished(p)
    /\ \E x \in Range(repositories[p]) : x \notin Range(regFile.content)

(* C10: scans that ran one after the other, none of them started while
   another was between its discovery and its write, leave every discovered
   path in the registry; an update is lost only by invocations that
   overlapped *)
C10_SequentialKeepsAll ==
    (Quiet /\ ~overlapped) => \A p \in 1..MaxScans : ~Lost(p)

(* the same statement for the copy of the code that opens the registry for
   reading and writing *)
C10_ReadWriteCopyKeepsAll ==
    (build = "part_000" /\ Quiet /\ ~overlapped)
        => \A p \in 1..MaxScans : ~Lost(p)

(* two invocations both read the empty registry before either wrote it, both
   wrote, and the registry lacks a path that one of them wrote *)
C10_LostUpdate ==
    /\ build = "part_000"
    /\ overlapped
    /\ pc[1] = "done" /\ pc[2] = "done"
    /\ oldRepos[1] = <<>> /\ oldRepos[2] = <<>>
    /\ \E p \in 1..2 : Lost(p)

(* one scan alone, without a repository lost to overlap: the panic of
   scan.go leaves its paths out of the registry *)
C10_LostWithoutOverlap ==
    /\ build = "scan.go"
    /\ ~overlapped
    /\ Quiet
    /\ \E p \in 1..MaxScans : Lost(p)

====
